---- MODULE Spec2Model ----
(***************************************************************************)
(* wordflash: the word repository (DatabaseManager over a TinyDB file),    *)
(* the vocabulary and quiz loaders that feed it, and the process life      *)
(* cycle of the backing file.                                              *)
(*                                                                         *)
(* Strings are TLA+ strings; str.lower() is the table Lower over the       *)
(* strings the model uses.  Python None is the value None.  A Python dict  *)
(* is a record whose DOMAIN is the set of keys it has.                     *)
(***************************************************************************)
EXTENDS Integers, Sequences, FiniteSets, TLC

VARIABLES
    words,             \* words_table: doc_id -> document, in insertion order
    categories_table,  \* categories_table: the category registry
    relations_table,   \* relations_table: the word_relations edges
    clock,             \* the wall clock datetime.now() reads
    ret,               \* the last repository call and what it returned
    result,            \* the last query and the value it returned
    disk,              \* the backing JSON file: what a reopen would read
    pc,                \* where the process is: closed, ready, loaded, valid, raised
    loaded,            \* the list in the caller's hands: returned by load_from_yaml,
                       \* or parsed and about to be normalized or validated
    entry_words        \* words table when the current batch started

vars == <<words, categories_table, relations_table, clock, ret, result, disk, pc, loaded,
          entry_words>>

\* ------------------------------------------------------------------ bounds
MaxClock == 1
MaxBatch == 2
MaxLegacy == 3
MaxRelations == 3
MaxItems == 3
MaxBlocks == 2

\* ------------------------------------------------------------ python values
None == "<None>"

\* str(v) on the values of the model
Str(v) == IF v = None THEN "None" ELSE v

Truthy(v) == v # None /\ v # ""

Get(d, k, default) == IF k \in DOMAIN d THEN d[k] ELSE default

Range(s) == {s[i] : i \in DOMAIN s}

Min(S) == CHOOSE x \in S : \A y \in S : x <= y

\* list(set(xs)): every element once, in an order the build decides
ListsOfSet(S) == {s \in [1..Cardinality(S) -> S] : Range(s) = S}

\* str.lower() on the strings of the model
Lower(s) ==
    CASE s = "Fisch" -> "fisch"
      [] s = "FISH"  -> "fish"
      [] s = "None"  -> "none"
      [] OTHER       -> s

\* ------------------------------------------------------- DatabaseManager
default_categories ==
    << "fruit", "vegetables", "animals", "food", "vehicles", "professions" >>

init_database_unconditional(cats) == cats \o default_categories

\* init_database on the categories table read from the backing file
init_database(cats) == IF cats = <<>> THEN default_categories ELSE cats

generate_hash_cased(source, target) == source \o ":" \o target

\* the md5 hexdigest is taken as collision free: a digest is its preimage
generate_hash(source, target) == Lower(source) \o ":" \o Lower(target)

\* datetime.now().isoformat() read at or after `now`
get_timestamp(now) == now..MaxClock

search_hash_by_source(tbl, h) == {i \in DOMAIN tbl : tbl[i].source = h}

search_hash_skip_last(tbl, h) ==
    {i \in DOMAIN tbl : tbl[i].source_hash = h /\ i < Len(tbl)}

\* words_table.search(Word.source_hash == h), as doc_ids in table order
search_hash(tbl, h) == {i \in DOMAIN tbl : tbl[i].source_hash = h}

update_word_metadata_stale(tbl, word_id, word_data, existing_doc, combined, ts) ==
    LET u0 == [existing_doc EXCEPT !.categories = combined]
        u1 == IF ~Truthy(existing_doc.gender) /\ Truthy(Get(word_data, "gender", None))
              THEN [u0 EXCEPT !.gender = word_data.gender] ELSE u0
        u2 == IF ~Truthy(existing_doc.plural) /\ Truthy(Get(word_data, "plural", None))
              THEN [u1 EXCEPT !.plural = word_data.plural] ELSE u1
        u3 == IF ~Truthy(existing_doc.notes) /\ Truthy(Get(word_data, "notes", None))
              THEN [u2 EXCEPT !.notes = word_data.notes] ELSE u2
    IN  [tbl EXCEPT ![word_id] = u3]

update_word_metadata_replace(tbl, word_id, word_data, existing_doc, combined, ts) ==
    [tbl EXCEPT ![word_id] =
        [existing_doc EXCEPT !.categories = Get(word_data, "categories", <<>>),
                             !.updated_at = ts]]

update_word_metadata_overwrite(tbl, word_id, word_data, existing_doc, combined, ts) ==
    LET u0 == [existing_doc EXCEPT !.categories = combined, !.updated_at = ts]
        u1 == IF Truthy(Get(word_data, "gender", None))
              THEN [u0 EXCEPT !.gender = word_data.gender] ELSE u0
        u2 == IF Truthy(Get(word_data, "plural", None))
              THEN [u1 EXCEPT !.plural = word_data.plural] ELSE u1
        u3 == IF Truthy(Get(word_data, "notes", None))
              THEN [u2 EXCEPT !.notes = word_data.notes] ELSE u2
    IN  [tbl EXCEPT ![word_id] = u3]

update_word_metadata_restore(tbl, word_id, word_data, existing_doc, combined, ts) ==
    [tbl EXCEPT ![word_id] =
        [existing_doc EXCEPT !.categories = combined, !.updated_at = ts,
                             !.source = word_data.source,
                             !.target = word_data.target]]

\* _update_word_metadata with combined_categories = list(set(...)) as `combined`
update_word_metadata(tbl, word_id, word_data, existing_doc, combined, ts) ==
    LET u0 == [existing_doc EXCEPT !.categories = combined, !.updated_at = ts]
        u1 == IF ~Truthy(existing_doc.gender) /\ Truthy(Get(word_data, "gender", None))
              THEN [u0 EXCEPT !.gender = word_data.gender] ELSE u0
        u2 == IF ~Truthy(existing_doc.plural) /\ Truthy(Get(word_data, "plural", None))
              THEN [u1 EXCEPT !.plural = word_data.plural] ELSE u1
        u3 == IF ~Truthy(existing_doc.notes) /\ Truthy(Get(word_data, "notes", None))
              THEN [u2 EXCEPT !.notes = word_data.notes] ELSE u2
    IN  [tbl EXCEPT ![word_id] = u3]

add_word_registered(tbl, word_data, now) ==
    LET source      == word_data.source
        target      == word_data.target
        source_hash == generate_hash(source, target)
        existing    == search_hash(tbl, source_hash)
        registered  == SelectSeq(Get(word_data, "categories", <<>>),
                                 LAMBDA c : c \in Range(default_categories))
    IN  IF existing # {}
        THEN LET word_id == Min(existing)
                 olds    == tbl[word_id].categories
             IN  { [table  |-> update_word_metadata(tbl, word_id, word_data,
                                                    tbl[word_id], combined, ts),
                    id     |-> word_id,
                    is_new |-> FALSE,
                    clock  |-> ts] :
                   combined \in ListsOfSet(Range(olds \o registered)),
                   ts \in get_timestamp(now) }
        ELSE UNION { { [table  |-> Append(tbl,
                                   [source      |-> source,
                                    target      |-> target,
                                    source_hash |-> source_hash,
                                    gender      |-> Get(word_data, "gender", None),
                                    plural      |-> Get(word_data, "plural", None),
                                    categories  |-> registered,
                                    notes       |-> Get(word_data, "notes", None),
                                    created_at  |-> c,
                                    updated_at  |-> u]),
                        id     |-> Len(tbl) + 1,
                        is_new |-> TRUE,
                        clock  |-> u] : u \in get_timestamp(c) } :
                   c \in get_timestamp(now) }

\* the outcomes of add_word(word_data) on table tbl with the clock at now:
\* the table afterwards, the (id, is_new) returned and the clock afterwards
add_word(tbl, word_data, now) ==
    LET source      == word_data.source
        target      == word_data.target
        source_hash == generate_hash(source, target)
        existing    == search_hash(tbl, source_hash)
    IN  IF existing # {}
        THEN LET word_id == Min(existing)
                 olds    == tbl[word_id].categories
                 news    == Get(word_data, "categories", <<>>)
             IN  { [table  |-> update_word_metadata(tbl, word_id, word_data,
                                                    tbl[word_id], combined, ts),
                    id     |-> word_id,
                    is_new |-> FALSE,
                    clock  |-> ts] :
                   combined \in ListsOfSet(Range(olds \o news)),
                   ts \in get_timestamp(now) }
        ELSE UNION { { [table  |-> Append(tbl,
                                   [source      |-> source,
                                    target      |-> target,
                                    source_hash |-> source_hash,
                                    gender      |-> Get(word_data, "gender", None),
                                    plural      |-> Get(word_data, "plural", None),
                                    categories  |-> Get(word_data, "categories", <<>>),
                                    notes       |-> Get(word_data, "notes", None),
                                    created_at  |-> c,
                                    updated_at  |-> u]),
                        id     |-> Len(tbl) + 1,
                        is_new |-> TRUE,
                        clock  |-> u] : u \in get_timestamp(c) } :
                   c \in get_timestamp(now) }

clear_database_keep_first(tbl) == IF tbl = <<>> THEN <<>> ELSE <<tbl[1]>>

\* table.truncate(), for each of the three tables
clear_database(tbl) == <<>>

\* the loop of get_duplicates from word i on, `seen` being the dict so far
RECURSIVE get_duplicates_from(_, _, _)
get_duplicates_from(all_words, i, seen) ==
    IF i > Len(all_words) THEN <<>>
    ELSE LET key == <<all_words[i].source, all_words[i].target>>
         IN  IF key \in DOMAIN seen
             THEN << [source |-> all_words[i].source,
                      target |-> all_words[i].target,
                      count  |-> seen[key] + 1] >>
                  \o get_duplicates_from(all_words, i + 1,
                                         [seen EXCEPT ![key] = seen[key] + 1])
             ELSE get_duplicates_from(all_words, i + 1, seen @@ (key :> 1))

get_duplicates(all_words) == get_duplicates_from(all_words, 1, <<>>)

add_word_relation_unchecked(tbl, word_id, related_word_id, relation_type) ==
    Append(tbl, [word_id |-> word_id, related_word_id |-> related_word_id,
                 relation_type |-> relation_type])

add_word_relation(tbl, word_id, related_word_id, relation_type) ==
    LET relation_doc == [word_id |-> word_id, related_word_id |-> related_word_id,
                         relation_type |-> relation_type]
        existing == {i \in DOMAIN tbl : /\ tbl[i].word_id = word_id
                                        /\ tbl[i].related_word_id = related_word_id
                                        /\ tbl[i].relation_type = relation_type}
    IN  IF existing = {} THEN Append(tbl, relation_doc) ELSE tbl

\* the loop of get_word_relations over the edges found, from edge i on;
\* words_table.get(doc_id = n) is None when the table has no document n
RECURSIVE get_word_relations_from(_, _, _, _)
get_word_relations_from(tbl, rels, word_id, i) ==
    IF i > Len(rels) THEN <<>>
    ELSE LET relation == rels[i]
             rest == get_word_relations_from(tbl, rels, word_id, i + 1)
         IN  IF relation.word_id = word_id /\ relation.related_word_id \in DOMAIN tbl
             THEN << [source        |-> tbl[relation.related_word_id].source,
                      target        |-> tbl[relation.related_word_id].target,
                      relation_type |-> relation.relation_type] >> \o rest
             ELSE rest

get_word_relations(tbl, rels, word_id) == get_word_relations_from(tbl, rels, word_id, 1)

\* Python's order on str (by code point), on the strings the model sorts
StringOrder == << "Fisch", "a", "a:b", "animals", "fisch", "pets", "uncategorized" >>

StrLess(a, b) ==
    (CHOOSE i \in DOMAIN StringOrder : StringOrder[i] = a)
        < (CHOOSE i \in DOMAIN StringOrder : StringOrder[i] = b)

\* the order sorted() gives the first n indices of keys: index n goes behind
\* every earlier index whose key is not greater (the sort is stable)
RECURSIVE sorted_indices(_, _)
sorted_indices(keys, n) ==
    IF n = 0 THEN <<>>
    ELSE LET prev == sorted_indices(keys, n - 1)
         IN  SelectSeq(prev, LAMBDA j : ~StrLess(keys[n], keys[j]))
             \o <<n>>
             \o SelectSeq(prev, LAMBDA j : StrLess(keys[n], keys[j]))

sorted_descending(xs, keys) ==
    LET order == sorted_indices(keys, Len(xs))
    IN  [k \in DOMAIN xs |-> xs[order[Len(xs) + 1 - k]]]

\* sorted(xs, key = ...), keys[i] being the key of xs[i]
sorted(xs, keys) ==
    LET order == sorted_indices(keys, Len(xs))
    IN  [k \in DOMAIN xs |-> xs[order[k]]]

search_category_first(tbl, category) ==
    SelectSeq([i \in DOMAIN tbl |-> i],
              LAMBDA i : /\ "categories" \in DOMAIN tbl[i]
                         /\ tbl[i].categories # <<>>
                         /\ tbl[i].categories[1] \in {category})

\* words_table.search(Word.categories.any([category])), as doc_ids in table order
search_category(tbl, category) ==
    SelectSeq([i \in DOMAIN tbl |-> i],
              LAMBDA i : /\ "categories" \in DOMAIN tbl[i]
                         /\ \E j \in DOMAIN tbl[i].categories :
                                tbl[i].categories[j] \in {category})

get_words_by_category(tbl, category) ==
    LET results == search_category(tbl, category)
    IN  [k \in DOMAIN results |->
            LET doc == tbl[results[k]]
            IN  [id         |-> results[k],
                 source     |-> doc.source,
                 target     |-> doc.target,
                 gender     |-> Get(doc, "gender", None),
                 plural     |-> Get(doc, "plural", None),
                 categories |-> Get(doc, "categories", <<>>),
                 notes      |-> Get(doc, "notes", None)]]

get_multi_category_words(tbl) ==
    LET ids == SelectSeq([i \in DOMAIN tbl |-> i],
                         LAMBDA i : Len(Get(tbl[i], "categories", <<>>)) > 1)
    IN  [k \in DOMAIN ids |->
            LET doc == tbl[ids[k]]
            IN  [id         |-> ids[k],
                 source     |-> doc.source,
                 target     |-> doc.target,
                 gender     |-> Get(doc, "gender", None),
                 plural     |-> Get(doc, "plural", None),
                 categories |-> Get(doc, "categories", <<>>),
                 notes      |-> Get(doc, "notes", None)]]

\* the outcomes of get_all_categories: sorted(list(all_categories)) for each
\* order list() may give the set
get_all_categories(tbl) ==
    LET all_categories == UNION { Range(Get(tbl[i], "categories", <<>>)) : i \in DOMAIN tbl }
    IN  { sorted(l, l) : l \in ListsOfSet(all_categories) }

\* the outcomes of get_statistics
get_statistics(tbl) ==
    { [total_words          |-> Len(tbl),
       unique_sources       |-> Cardinality({tbl[i].source : i \in DOMAIN tbl}),
       multi_category_words |->
           Cardinality({i \in DOMAIN tbl : Len(Get(tbl[i], "categories", <<>>)) > 1}),
       total_categories     |-> Len(categories),
       categories           |-> categories] : categories \in get_all_categories(tbl) }

export_word_data_nulls(doc) ==
    [k \in {"source", "target", "gender", "plural", "categories", "notes"} |-> doc[k]]

\* the dict export_words builds from one document
export_word_data(doc) ==
    LET keys == {"source", "target"}
                \cup {f \in {"gender", "plural", "notes"} : Truthy(Get(doc, f, None))}
                \cup (IF Get(doc, "categories", <<>>) # <<>> THEN {"categories"} ELSE {})
    IN  [k \in keys |-> doc[k]]

export_words_unsorted(tbl) == [k \in DOMAIN tbl |-> export_word_data(tbl[k])]

export_words(tbl) ==
    LET docs == sorted(tbl, [i \in DOMAIN tbl |-> tbl[i].source])
    IN  [k \in DOMAIN docs |-> export_word_data(docs[k])]

\* ------------------------------------------------------------- WordLoader
\* a parsed YAML item is [py |-> "dict", d |-> the mapping] or a scalar
IsDict(item) == item.py = "dict"

process_simple_format(pairs) ==
    [i \in DOMAIN pairs |->
        [source     |-> Str(pairs[i][1]),
         target     |-> Str(pairs[i][2]),
         categories |-> <<"uncategorized">>]]

process_item_strict(item) ==
    IF IsDict(item) /\ "source" \in DOMAIN item.d /\ "target" \in DOMAIN item.d
    THEN << [source     |-> Str(item.d.source),
             target     |-> Str(item.d.target),
             gender     |-> Get(item.d, "gender", None),
             plural     |-> Get(item.d, "plural", None),
             categories |-> Get(item.d, "categories", <<"uncategorized">>),
             notes      |-> Get(item.d, "notes", None)] >>
    ELSE <<>>

\* the body of the loop of _process_enhanced_format: what one item appends
process_item(item) ==
    IF IsDict(item)
    THEN IF "source" \in DOMAIN item.d /\ "target" \in DOMAIN item.d
         THEN << [source     |-> Str(item.d.source),
                  target     |-> Str(item.d.target),
                  gender     |-> Get(item.d, "gender", None),
                  plural     |-> Get(item.d, "plural", None),
                  categories |-> Get(item.d, "categories", <<"uncategorized">>),
                  notes      |-> Get(item.d, "notes", None)] >>
         ELSE IF Cardinality(DOMAIN item.d) = 1
              THEN LET source_word == CHOOSE k \in DOMAIN item.d : TRUE
                   IN  << [source     |-> Str(source_word),
                           target     |-> Str(item.d[source_word]),
                           categories |-> <<"uncategorized">>] >>
              ELSE <<>>
    ELSE <<>>

RECURSIVE process_enhanced_format(_)
process_enhanced_format(words_list) ==
    IF words_list = <<>> THEN <<>>
    ELSE process_item(Head(words_list)) \o process_enhanced_format(Tail(words_list))

\* the outcomes of _store_words_in_database: add_word on each record in turn
RECURSIVE store_words_in_database(_, _, _)
store_words_in_database(tbl, ws, now) ==
    IF ws = <<>> THEN { [table |-> tbl, clock |-> now, flags |-> <<>>] }
    ELSE UNION { { [table |-> r2.table, clock |-> r2.clock,
                    flags |-> <<r1.is_new>> \o r2.flags] :
                   r2 \in store_words_in_database(r1.table, Tail(ws), r1.clock) } :
                 r1 \in add_word(tbl, Head(ws), now) }

convert_to_simple_format(ws) ==
    [i \in DOMAIN ws |-> [source |-> ws[i].source, target |-> ws[i].target]]

\* the canonical records load_from_yaml builds from the parsed file
normalize(data) ==
    CASE data.kind = "words"   -> process_enhanced_format(data.items)
      [] data.kind = "mapping" -> process_simple_format(data.items)
      [] data.kind = "list"    -> process_enhanced_format(data.items)
      [] OTHER                 -> <<>>

\* the outcomes of load_from_yaml: the store afterwards and the list returned
load_from_yaml(tbl, data, now) ==
    { [table |-> r.table, clock |-> r.clock, flags |-> r.flags,
       result |-> convert_to_simple_format(normalize(data))] :
      r \in store_words_in_database(tbl, normalize(data), now) }

validate_word_list_no_emptiness(ws) ==
    /\ ws # <<>>
    /\ \A i \in DOMAIN ws :
          /\ IsDict(ws[i])
          /\ "source" \in DOMAIN ws[i].d /\ "target" \in DOMAIN ws[i].d

\* validate_word_list on a list of parsed items (a dict or something else)
validate_word_list(ws) ==
    /\ ws # <<>>
    /\ \A i \in DOMAIN ws :
          /\ IsDict(ws[i])
          /\ "source" \in DOMAIN ws[i].d /\ "target" \in DOMAIN ws[i].d
          /\ Truthy(ws[i].d.source) /\ Truthy(ws[i].d.target)

\* ------------------------------------------------------------- QuizLoader
\* the dict store_quiz_to_db hands to add_word
analyze_vocabulary_primary(tbl) ==
    { [statistics            |-> stats,
       duplicates            |-> get_duplicates(tbl),
       multi_category_words  |-> get_multi_category_words(tbl),
       category_distribution |->
           [category \in Range(stats.categories) |->
               Len(search_category_first(tbl, category))]] :
      stats \in get_statistics(tbl) }

\* the outcomes of WordLoader.analyze_vocabulary
analyze_vocabulary(tbl) ==
    { [statistics            |-> stats,
       duplicates            |-> get_duplicates(tbl),
       multi_category_words  |-> get_multi_category_words(tbl),
       category_distribution |->
           [category \in Range(stats.categories) |->
               Len(get_words_by_category(tbl, category))]] :
      stats \in get_statistics(tbl) }

quiz_word_data(quiz_data) ==
    [source   |-> quiz_data.question,
     target   |-> quiz_data.answer,
     category |-> Get(quiz_data, "category", "Uncategorized"),
     type     |-> "quiz"]

\* parsed YAML values that are not mappings of the model's kind
NoneValue == [py |-> "NoneType"]

List(items) == [py |-> "list", items |-> items]

\* {}
EmptyDict == [py |-> "dict", d |-> <<>>]

default_media == [text |-> TRUE, audio |-> FALSE, image |-> FALSE]

\* {**a, **b}
Merge(a, b) ==
    [k \in DOMAIN a \cup DOMAIN b |-> IF k \in DOMAIN b THEN b[k] ELSE a[k]]

process_question_defaults_only(question_data, category) ==
    IF "question" \notin DOMAIN question_data \/ "answer" \notin DOMAIN question_data
    THEN [kind |-> "None"]
    ELSE [kind |-> "quiz",
          quiz |-> [question       |-> Str(question_data.question),
                    answer         |-> Str(question_data.answer),
                    question_media |-> default_media,
                    answer_media   |-> default_media,
                    category       |-> category]]

\* _process_question: None, the processed question, or the TypeError that
\* ** raises on a media config that is not a mapping
process_question(question_data, category) ==
    IF "question" \notin DOMAIN question_data \/ "answer" \notin DOMAIN question_data
    THEN [kind |-> "None"]
    ELSE LET question_media == Get(question_data, "question_media", EmptyDict)
             answer_media   == Get(question_data, "answer_media", EmptyDict)
         IN  IF ~IsDict(question_media) \/ ~IsDict(answer_media)
             THEN [kind |-> "TypeError"]
             ELSE [kind |-> "quiz",
                   quiz |-> [question       |-> Str(question_data.question),
                             answer         |-> Str(question_data.answer),
                             question_media |-> Merge(default_media, question_media.d),
                             answer_media   |-> Merge(default_media, answer_media.d),
                             category       |-> category,
                             notes          |-> Get(question_data, "notes", None),
                             answer_image_search_term |->
                                 Get(question_data, "answer_image_search_term",
                                     question_data.answer),
                             question_image_search_term |->
                                 Get(question_data, "question_image_search_term",
                                     question_data.question),
                             question_lang  |-> Get(question_data, "question_lang", "en"),
                             answer_lang    |-> Get(question_data, "answer_lang", "en")]]

\* an outcome of a loop: the list built, or the exception that ended it
Built(quizzes) == [raised |-> FALSE, quizzes |-> quizzes]

Raised == [raised |-> TRUE, quizzes |-> <<>>]

Then(first, rest) ==
    IF first.raised \/ rest.raised THEN Raised ELSE Built(first.quizzes \o rest.quizzes)

\* the inner loop of _process_quizzes over the questions of one block
RECURSIVE process_questions(_, _)
process_questions(questions, category) ==
    IF questions = <<>> THEN Built(<<>>)
    ELSE LET question_data == Head(questions)
             processed == IF IsDict(question_data)
                          THEN process_question(question_data.d, category)
                          ELSE [kind |-> "None"]
         IN  CASE processed.kind = "TypeError" -> Raised
               [] processed.kind = "quiz" ->
                      Then(Built(<<processed.quiz>>),
                           process_questions(Tail(questions), category))
               [] OTHER -> process_questions(Tail(questions), category)

\* the body of the outer loop: `for question_data in questions` raises
\* TypeError when questions is not iterable
process_quiz_item(quiz_item) ==
    IF IsDict(quiz_item) /\ "questions" \in DOMAIN quiz_item.d
    THEN LET category  == Get(quiz_item.d, "category", "Uncategorized")
             questions == quiz_item.d.questions
         IN  IF questions.py = "list"
             THEN process_questions(questions.items, category)
             ELSE Raised
    ELSE Built(<<>>)

RECURSIVE process_quizzes(_)
process_quizzes(quizzes_list) ==
    IF quizzes_list = <<>> THEN Built(<<>>)
    ELSE LET first == process_quiz_item(Head(quizzes_list))
         IN  IF first.raised THEN Raised
             ELSE Then(first, process_quizzes(Tail(quizzes_list)))

required_media_keys == {"text", "audio", "image"}

validate_quiz_list_fields_only(quizzes) ==
    /\ quizzes # <<>>
    /\ \A i \in DOMAIN quizzes :
          {"question", "answer", "question_media", "answer_media"} \subseteq DOMAIN quizzes[i]

validate_quiz_list(quizzes) ==
    /\ quizzes # <<>>
    /\ \A i \in DOMAIN quizzes :
          /\ {"question", "answer", "question_media", "answer_media"}
                 \subseteq DOMAIN quizzes[i]
          /\ \A media_type \in {"question_media", "answer_media"} :
                 required_media_keys \subseteq DOMAIN Get(quizzes[i], media_type, <<>>)

\* ------------------------------------------------------------------ inputs
\* (F/f casings of one pair; two different pairs whose f"{s}:{t}" coincide)
Pairs ==
    { <<"Fisch", "fish">>, <<"fisch", "FISH">>, <<"a:b", "c">>, <<"a", "b:c">> }

Word(p, g, pl, n) ==
    [source |-> p[1], target |-> p[2], gender |-> g, plural |-> pl, notes |-> n]

WithCategories(w, cs) == [k \in DOMAIN w \cup {"categories"} |->
                            IF k = "categories" THEN cs ELSE w[k]]

\* the records of W without a categories key, and with each list of `lists`
CategoryVariants(W, lists) ==
    W \cup { WithCategories(w, cs) : w \in W, cs \in lists }

\* records of every pair, optional fields unset
WordInputs ==
    CategoryVariants({ Word(p, None, None, None) : p \in Pairs },
                     { <<>>, <<"animals">> })

\* records of one pair in both casings, each setting at most one optional field
MergePairs == { <<"Fisch", "fish">>, <<"fisch", "FISH">> }

MergeInputs ==
    CategoryVariants(
        { Word(p, g, None, None) : p \in MergePairs,
                                   g \in {None, "", "feminine", "neuter"} }
        \cup { Word(p, None, pl, None) : p \in MergePairs, pl \in {"Fische", "Fischen"} }
        \cup { Word(p, None, None, n) : p \in MergePairs, n \in {"n1", "n2"} },
        { <<>>, <<"animals">>, <<"pets">> })

QuizInputs ==
    { [question |-> p[1], answer |-> p[2], category |-> "Presidents"] : p \in Pairs }

\* parsed YAML entries: well formed, a duplicate in other casing, an empty
\* target, a null target, no target, a single-key mapping, a scalar
Dict(d) == [py |-> "dict", d |-> d]

RawItems ==
    { Dict([source |-> "Fisch", target |-> "fish", categories |-> <<"animals">>]),
      Dict([source |-> "fisch", target |-> "FISH", gender |-> "feminine"]),
      Dict([source |-> "a", target |-> ""]),
      Dict([source |-> "a", target |-> None]),
      Dict([source |-> "a:b", gender |-> "neuter"]),
      Dict([source |-> "a"]),
      Dict([Fisch |-> "fish"]),
      [py |-> "str"] }

RawPairs == { <<"Fisch", "fish">>, <<"fisch", "FISH">>, <<"a", "">>, <<"a:b", None>> }

SeqsUpTo(S, n) == UNION { [1..k -> S] : k \in 0..n }

YamlData ==
    { [kind |-> k, items |-> b] : k \in {"list", "words"}, b \in SeqsUpTo(RawItems, MaxBatch) }
    \cup { [kind |-> "mapping", items |-> b] :
           b \in { m \in SeqsUpTo(RawPairs, MaxBatch) :
                   \A i, j \in DOMAIN m : i # j => m[i][1] # m[j][1] } }
    \cup { [kind |-> "scalar", items |-> <<>>] }

\* ------------------------------------------------------------------ states
NoRet == [op |-> "none", source |-> "", target |-> "", id |-> 0, is_new |-> FALSE]

NoResult == [op |-> "none"]

EmptyFile == [words |-> <<>>, categories |-> <<>>, word_relations |-> <<>>]

\* a DatabaseManager freshly constructed on an empty backing file
Init ==
    /\ words = <<>>
    /\ categories_table = init_database(<<>>)
    /\ relations_table = <<>>
    /\ clock = 0
    /\ ret = NoRet
    /\ result = NoResult
    /\ disk = EmptyFile
    /\ pc = "ready"
    /\ loaded = <<>>
    /\ entry_words = <<>>

AddWord(inputs) ==
    /\ pc = "ready"
    /\ \E w \in inputs : \E r \in add_word(words, w, clock) :
          /\ words' = r.table
          /\ clock' = r.clock
          /\ ret' = [op |-> "add_word", source |-> w.source, target |-> w.target,
                     id |-> r.id, is_new |-> r.is_new]
    /\ result' = NoResult
    /\ UNCHANGED <<categories_table, relations_table, disk, pc, loaded, entry_words>>

StoreQuizToDb ==
    /\ pc = "ready"
    /\ \E q \in QuizInputs : \E r \in add_word(words, quiz_word_data(q), clock) :
          /\ words' = r.table
          /\ clock' = r.clock
          /\ ret' = [op |-> "store_quiz_to_db", source |-> q.question,
                     target |-> q.answer, id |-> r.id, is_new |-> r.is_new]
    /\ result' = NoResult
    /\ UNCHANGED <<categories_table, relations_table, disk, pc, loaded, entry_words>>

ClearDatabase ==
    /\ pc = "ready"
    /\ words' = clear_database(words)
    /\ categories_table' = clear_database(categories_table)
    /\ relations_table' = clear_database(relations_table)
    /\ ret' = [NoRet EXCEPT !.op = "clear_database"]
    /\ result' = NoResult
    /\ UNCHANGED <<clock, disk, pc, loaded, entry_words>>

\* ------------------------------------------------- the generator process
\* FlashcardGenerator.__init__: WordLoader() constructs the DatabaseManager
Open ==
    /\ pc = "closed"
    /\ words' = disk.words
    /\ categories_table' = init_database(disk.categories)
    /\ relations_table' = disk.word_relations
    /\ entry_words' = disk.words
    /\ pc' = "ready"
    /\ ret' = NoRet
    /\ result' = NoResult
    /\ UNCHANGED <<clock, disk, loaded>>

\* generate_from_yaml, line 29: words = self.word_loader.load_from_yaml(path)
\* (main() runs it once per process)
GenerateLoad ==
    /\ pc = "ready"
    /\ \E data \in YamlData : \E r \in load_from_yaml(words, data, clock) :
          /\ words' = r.table
          /\ clock' = r.clock
          /\ loaded' = r.result
          /\ ret' = [NoRet EXCEPT !.op = "load_from_yaml", !.id = Len(r.flags),
                                  !.is_new = \E i \in DOMAIN r.flags : r.flags[i]]
    /\ entry_words' = words
    /\ pc' = "loaded"
    /\ result' = NoResult
    /\ UNCHANGED <<categories_table, relations_table, disk>>

\* generate_from_yaml, lines 31-32: validate, raise ValueError on failure
GenerateValidate ==
    /\ pc = "loaded"
    /\ pc' = IF validate_word_list([i \in DOMAIN loaded |-> Dict(loaded[i])])
             THEN "valid" ELSE "raised"
    /\ UNCHANGED <<words, categories_table, relations_table, clock, ret, result,
                   disk, loaded, entry_words>>

\* the process ends; nothing in the repository closes the store, and the
\* CachingMiddleware writes the file only on close() or on its 1000th write
Exit ==
    /\ pc \in {"ready", "valid", "raised"}
    /\ pc' = "closed"
    /\ words' = <<>>
    /\ categories_table' = <<>>
    /\ relations_table' = <<>>
    /\ loaded' = <<>>
    /\ entry_words' = <<>>
    /\ ret' = NoRet
    /\ result' = NoResult
    /\ UNCHANGED <<clock, disk>>

InitLoader ==
    /\ words = <<>>
    /\ categories_table = <<>>
    /\ relations_table = <<>>
    /\ clock = 0
    /\ ret = NoRet
    /\ result = NoResult
    /\ disk = EmptyFile
    /\ pc = "closed"
    /\ loaded = <<>>
    /\ entry_words = <<>>

NextLoader == Open \/ GenerateLoad \/ GenerateValidate \/ Exit

SpecLoader == InitLoader /\ [][NextLoader]_vars

\* the repository under records of every pair
Next == AddWord(WordInputs) \/ StoreQuizToDb \/ ClearDatabase

Spec == Init /\ [][Next]_vars

\* the merge path: one word, every optional field
NextMerge == AddWord(MergeInputs) \/ ClearDatabase

SpecMerge == Init /\ [][NextMerge]_vars

\* ------------------------------------------- a store with earlier content
\* a backing file written before the hash lookup existed: documents as
\* add_word writes them, without the check for a stored word
LegacyDoc(p, cs) ==
    [source      |-> p[1],
     target      |-> p[2],
     source_hash |-> generate_hash(p[1], p[2]),
     gender      |-> None,
     plural      |-> None,
     categories  |-> cs,
     notes       |-> None,
     created_at  |-> 0,
     updated_at  |-> 0]

LegacyDocs ==
    { LegacyDoc(<<"Fisch", "fish">>, <<>>),
      LegacyDoc(<<"Fisch", "fish">>, <<"pets", "animals">>),
      LegacyDoc(<<"fisch", "FISH">>, <<"uncategorized">>) }

\* records added on top: a new word with every field given, one of them
\* empty, and a record that meets the stored words
LegacyInputs ==
    { WithCategories(Word(<<"a", "b:c">>, "feminine", "", "n1"), <<"animals">>),
      WithCategories(Word(<<"fisch", "FISH">>, "neuter", None, None), <<"animals">>) }

LegacyTables == SeqsUpTo(LegacyDocs, MaxLegacy)

GetDuplicates ==
    /\ pc = "ready"
    /\ result' = [op |-> "get_duplicates", value |-> get_duplicates(words)]
    /\ UNCHANGED <<words, categories_table, relations_table, clock, ret, disk, pc,
                   loaded, entry_words>>

ExportWords ==
    /\ pc = "ready"
    /\ result' = [op |-> "export_words", value |-> export_words(words)]
    /\ UNCHANGED <<words, categories_table, relations_table, clock, ret, disk, pc,
                   loaded, entry_words>>

QueryCategories == {"animals", "uncategorized", "fruit"}

GetWordsByCategory ==
    /\ pc = "ready"
    /\ \E category \in QueryCategories :
          result' = [op |-> "get_words_by_category", category |-> category,
                     value |-> get_words_by_category(words, category)]
    /\ UNCHANGED <<words, categories_table, relations_table, clock, ret, disk, pc,
                   loaded, entry_words>>

GetAllCategories ==
    /\ pc = "ready"
    /\ \E v \in get_all_categories(words) :
          result' = [op |-> "get_all_categories", value |-> v]
    /\ UNCHANGED <<words, categories_table, relations_table, clock, ret, disk, pc,
                   loaded, entry_words>>

\* a DatabaseManager constructed on such a file
InitLegacy ==
    /\ words \in LegacyTables
    /\ categories_table = default_categories
    /\ relations_table = <<>>
    /\ clock = 0
    /\ ret = NoRet
    /\ result = NoResult
    /\ disk = [EmptyFile EXCEPT !.words = words, !.categories = default_categories]
    /\ pc = "ready"
    /\ loaded = <<>>
    /\ entry_words = <<>>

NextLegacy ==
    \/ AddWord(LegacyInputs) \/ ClearDatabase
    \/ GetDuplicates \/ ExportWords \/ GetWordsByCategory \/ GetAllCategories

SpecLegacy == InitLegacy /\ [][NextLegacy]_vars

\* ---------------------------------------------------------- word relations
\* the edges callers add: both directions and a second type
RelationTriples ==
    { <<1, 2, "synonym">>, <<2, 1, "synonym">>, <<1, 2, "antonym">> }

RelationInputs ==
    { WithCategories(Word(<<"Fisch", "fish">>, None, None, None), <<"animals">>),
      Word(<<"fisch", "FISH">>, "feminine", None, None),
      Word(<<"a", "b:c">>, None, None, None) }

AddWordRelation ==
    /\ pc = "ready"
    /\ Len(relations_table) <= MaxRelations
    /\ \E t \in RelationTriples :
        /\ relations_table' = add_word_relation(relations_table, t[1], t[2], t[3])
        /\ ret' = [op |-> "add_word_relation", word_id |-> t[1],
                   related_word_id |-> t[2], relation_type |-> t[3]]
    /\ result' = NoResult
    /\ UNCHANGED <<words, categories_table, clock, disk, pc, loaded, entry_words>>

GetWordRelations ==
    /\ pc = "ready"
    /\ \E word_id \in 1..2 :
        result' = [op |-> "get_word_relations", word_id |-> word_id,
                   value |-> get_word_relations(words, relations_table, word_id)]
    /\ UNCHANGED <<words, categories_table, relations_table, clock, ret, disk, pc,
                   loaded, entry_words>>

NextRelations ==
    AddWord(RelationInputs) \/ AddWordRelation \/ GetWordRelations \/ ClearDatabase

SpecRelations == Init /\ [][NextRelations]_vars

\* ------------------------------------------------- open/close cycles
\* DatabaseManager.close(): TinyDB.close() has the CachingMiddleware flush the
\* cached tables to the backing file
Close ==
    /\ pc = "ready"
    /\ disk' = [words |-> words, categories |-> categories_table,
                word_relations |-> relations_table]
    /\ pc' = "closed"
    /\ words' = <<>>
    /\ categories_table' = <<>>
    /\ relations_table' = <<>>
    /\ entry_words' = <<>>
    /\ ret' = [NoRet EXCEPT !.op = "close"]
    /\ result' = NoResult
    /\ UNCHANGED <<clock, loaded>>

ReopenInputs ==
    { WithCategories(Word(<<"Fisch", "fish">>, None, None, None), <<"pets">>),
      Word(<<"a", "b:c">>, None, None, None) }

\* processes that construct the store on one backing file, add words, clear
\* it, and end with or without close()
NextReopen == Open \/ AddWord(ReopenInputs) \/ ClearDatabase \/ Close \/ Exit

SpecReopen == InitLoader /\ [][NextReopen]_vars

\* ------------------------------------------------- vocabulary analysis
\* records of three hashes, with one, two and no categories; the second is
\* the first in another casing
AnalysisInputs ==
    { WithCategories(Word(<<"Fisch", "fish">>, None, None, None), <<"animals">>),
      WithCategories(Word(<<"fisch", "FISH">>, None, None, None), <<"pets", "animals">>),
      WithCategories(Word(<<"a:b", "c">>, None, None, None), <<"pets">>),
      Word(<<"a", "b:c">>, None, None, None) }

AnalyzeVocabulary ==
    /\ pc = "ready"
    /\ \E analysis \in analyze_vocabulary(words) :
          result' = [op |-> "analyze_vocabulary", value |-> analysis]
    /\ UNCHANGED <<words, categories_table, relations_table, clock, ret, disk, pc,
                   loaded, entry_words>>

\* a DatabaseManager constructed on a file without words, with or without a
\* relation between two ids
InitAnalysis ==
    /\ words = <<>>
    /\ categories_table = init_database(<<>>)
    /\ relations_table \in {<<>>, add_word_relation(<<>>, 1, 2, "synonym")}
    /\ clock = 0
    /\ ret = NoRet
    /\ result = NoResult
    /\ disk = EmptyFile
    /\ pc = "ready"
    /\ loaded = <<>>
    /\ entry_words = <<>>

NextAnalysis == AddWord(AnalysisInputs) \/ AnalyzeVocabulary \/ ClearDatabase

SpecAnalysis == InitAnalysis /\ [][NextAnalysis]_vars

\* ------------------------------------------------- a batch stored twice
\* records of two hashes: a casing variant with a repeated category, a second
\* gender for a stored word, empty notes, an empty list, a colliding pair
RerunInputs ==
    { Word(<<"Fisch", "fish">>, None, None, None),
      WithCategories(Word(<<"fisch", "FISH">>, "feminine", None, None),
                     <<"animals", "animals">>),
      WithCategories(Word(<<"Fisch", "fish">>, "neuter", None, "n1"), <<"pets">>),
      WithCategories(Word(<<"a:b", "c">>, None, None, ""), <<>>),
      WithCategories(Word(<<"a", "b:c">>, None, "Fische", None), <<"animals">>) }

Batches == SeqsUpTo(RerunInputs, MaxBatch)

\* what the store may hold before the batch
PriorInputs == { WithCategories(Word(<<"Fisch", "fish">>, "", None, None), <<"pets">>) }

\* _store_words_in_database(words) on a batch, on whatever the store holds
StoreWords ==
    /\ pc = "ready"
    /\ \E ws \in Batches : \E r \in store_words_in_database(words, ws, clock) :
          /\ words' = r.table
          /\ clock' = r.clock
          /\ loaded' = ws
          /\ ret' = [NoRet EXCEPT !.op = "store_words", !.id = Len(r.flags),
                                  !.is_new = \E i \in DOMAIN r.flags : r.flags[i]]
    /\ entry_words' = words
    /\ pc' = "stored"
    /\ result' = NoResult
    /\ UNCHANGED <<categories_table, relations_table, disk>>

\* the same call with the same batch once more
StoreWordsAgain ==
    /\ pc = "stored"
    /\ \E r \in store_words_in_database(words, loaded, clock) :
          /\ words' = r.table
          /\ clock' = r.clock
          /\ ret' = [NoRet EXCEPT !.op = "store_words", !.id = Len(r.flags),
                                  !.is_new = \E i \in DOMAIN r.flags : r.flags[i]]
    /\ entry_words' = words
    /\ pc' = "rerun"
    /\ result' = NoResult
    /\ UNCHANGED <<categories_table, relations_table, disk, loaded>>

NextRerun == AddWord(PriorInputs) \/ StoreWords \/ StoreWordsAgain

SpecRerun == Init /\ [][NextRerun]_vars

\* ------------------------------------------------ a simple-format file
\* yaml.safe_load of a flat mapping: its items, keys pairwise different
SimpleData ==
    { [kind |-> "mapping", items |-> m] :
      m \in { m \in SeqsUpTo(Pairs, MaxBatch) :
              \A i, j \in DOMAIN m : i # j => m[i][1] # m[j][1] } }

\* WordLoader.load_from_yaml on such a file
LoadFromYaml ==
    /\ pc = "ready"
    /\ \E data \in SimpleData : \E r \in load_from_yaml(words, data, clock) :
          /\ words' = r.table
          /\ clock' = r.clock
          /\ loaded' = r.result
          /\ ret' = [op |-> "load_from_yaml", data |-> data, flags |-> r.flags]
    /\ entry_words' = words
    /\ result' = NoResult
    /\ UNCHANGED <<categories_table, relations_table, disk, pc>>

GetStatistics ==
    /\ pc = "ready"
    /\ \E st \in get_statistics(words) :
          result' = [op |-> "get_statistics", value |-> st]
    /\ UNCHANGED <<words, categories_table, relations_table, clock, ret, disk, pc,
                   loaded, entry_words>>

NextSimple == LoadFromYaml \/ GetWordsByCategory \/ GetStatistics \/ ClearDatabase

SpecSimple == Init /\ [][NextSimple]_vars

\* -------------------------------------------- the normalizers and validators
\* lists handed to validate_word_list: well formed entries, an empty source,
\* an empty and a null target, a missing key, something that is not a dict
ValidateItems ==
    { Dict([source |-> "a", target |-> "b:c"]),
      Dict([source |-> "Fisch", target |-> "fish"]),
      Dict([source |-> "", target |-> "c"]),
      Dict([source |-> "a", target |-> ""]),
      Dict([source |-> "a", target |-> None]),
      Dict([source |-> "a"]),
      Dict([target |-> "c"]),
      [py |-> "str"] }

\* a call about to be made: the function and the parsed list handed to it
Call(f, arg) == [for |-> f, arg |-> arg]

ProcessEnhancedFormat ==
    /\ pc = "ready"
    /\ loaded.for = "process_enhanced_format"
    /\ result' = [op |-> "process_enhanced_format", words_list |-> loaded.arg,
                  value |-> process_enhanced_format(loaded.arg)]
    /\ UNCHANGED <<words, categories_table, relations_table, clock, ret, disk, pc,
                   loaded, entry_words>>

ValidateWordList ==
    /\ pc = "ready"
    /\ loaded.for = "validate_word_list"
    /\ result' = [op |-> "validate_word_list", words |-> loaded.arg,
                  value |-> validate_word_list(loaded.arg)]
    /\ UNCHANGED <<words, categories_table, relations_table, clock, ret, disk, pc,
                   loaded, entry_words>>

\* question entries: plain, with partial media configs, without answer,
\* without question, with a null media config
Q1 == Dict([question |-> "q1", answer |-> "a1"])

Q2 ==
    Dict([question |-> "q2", answer |-> "a2",
          question_media |-> Dict([audio |-> TRUE]),
          answer_media |-> Dict([text |-> FALSE, image |-> TRUE,
                                 image_search_term |-> "a2"])])

Q3 == Dict([question |-> "q3"])

Q4 == Dict([answer |-> "a4"])

Q5 == Dict([question |-> "q5", answer |-> "a5", question_media |-> NoneValue])

\* quiz blocks: with and without category, without questions, not a
\* mapping, with null questions, with no question
QuizBlocks ==
    { Dict([category |-> "Presidents", questions |-> List(<<Q1, Q3, Q2>>)]),
      Dict([questions |-> List(<<[py |-> "str"], Q4, Q1>>)]),
      Dict([category |-> "Presidents"]),
      [py |-> "str"],
      Dict([category |-> "Capitals", questions |-> NoneValue]),
      Dict([category |-> "Capitals", questions |-> List(<<Q5, Q1>>)]),
      Dict([category |-> "Capitals", questions |-> List(<<>>)]) }

\* records handed to validate_quiz_list: processed questions, and records
\* without a field, without a media config, with a media config short of a key
ValidateQuizItems ==
    { process_question(Q1.d, "Presidents").quiz,
      process_question(Q2.d, "Capitals").quiz,
      [question |-> "q1", question_media |-> default_media,
       answer_media |-> default_media],
      [question |-> "q1", answer |-> "a1", question_media |-> default_media],
      [question |-> "q1", answer |-> "a1", question_media |-> default_media,
       answer_media |-> [text |-> TRUE, audio |-> FALSE]] }

ProcessQuizzes ==
    /\ pc = "ready"
    /\ loaded.for = "process_quizzes"
    /\ result' = [op |-> "process_quizzes", quizzes_list |-> loaded.arg,
                  value |-> process_quizzes(loaded.arg)]
    /\ UNCHANGED <<words, categories_table, relations_table, clock, ret, disk, pc,
                   loaded, entry_words>>

ValidateQuizList ==
    /\ pc = "ready"
    /\ loaded.for = "validate_quiz_list"
    /\ result' = [op |-> "validate_quiz_list", quizzes |-> loaded.arg,
                  value |-> validate_quiz_list(loaded.arg)]
    /\ UNCHANGED <<words, categories_table, relations_table, clock, ret, disk, pc,
                   loaded, entry_words>>

LoaderCalls ==
    { Call("process_enhanced_format", l) : l \in SeqsUpTo(RawItems, MaxItems) }
    \cup { Call("validate_word_list", l) : l \in SeqsUpTo(ValidateItems, MaxItems) }
    \cup { Call("process_quizzes", l) : l \in SeqsUpTo(QuizBlocks, MaxBlocks) }
    \cup { Call("validate_quiz_list", l) : l \in SeqsUpTo(ValidateQuizItems, MaxItems) }

\* a loader with a parsed file in hand, the store open and empty
InitLoaders ==
    /\ words = <<>>
    /\ categories_table = init_database(<<>>)
    /\ relations_table = <<>>
    /\ clock = 0
    /\ ret = NoRet
    /\ result = NoResult
    /\ disk = EmptyFile
    /\ pc = "ready"
    /\ loaded \in LoaderCalls
    /\ entry_words = <<>>

NextLoaders ==
    ProcessEnhancedFormat \/ ValidateWordList \/ ProcessQuizzes \/ ValidateQuizList

SpecLoaders == InitLoaders /\ [][NextLoaders]_vars

\* ------------------------------------------------------------------ claims
LoweredPair(source, target) == <<Lower(source), Lower(target)>>

SamePair(a, b) == LoweredPair(a.source, a.target) = LoweredPair(b.source, b.target)

NoRepeats(s) == Len(s) = Cardinality(Range(s))

Merged == ret.op = "add_word" /\ ~ret.is_new

\* C1: no two stored words have the same (source.lower(), target.lower()) pair
C1_OneWordPerLoweredPair ==
    \A i, j \in DOMAIN words : i # j => ~SamePair(words[i], words[j])

\* two words stored, and the last add_word met a stored word in another casing
C1_Witness ==
    /\ Len(words) = 2
    /\ Merged
    /\ ret.source # words[ret.id].source

\* C2: when validate_word_list fails, no record of the batch has reached the
\* words table: the table is what it was when the batch started
C2_ValidationGatesPersistence == pc = "raised" => words = entry_words

\* C3: from any stored state, add_word twice with the same source and target
\* returns the same id both times, and the second call returns is_new = False
C3_IdempotentDedup ==
    \A w1, w2 \in WordInputs :
        (w1.source = w2.source /\ w1.target = w2.target) =>
            \A r1 \in add_word(words, w1, clock) :
                \A r2 \in add_word(r1.table, w2, r1.clock) :
                    r2.id = r1.id /\ ~r2.is_new

\* the same pair, in the same casing, was added again and met its word
C3_Witness ==
    /\ Merged
    /\ ret.source = words[ret.id].source
    /\ ret.target = words[ret.id].target

\* C4: add_word of a record whose lower-cased pair differs from the pair of
\* every stored word returns is_new = True with a fresh id, grows the table by
\* one and leaves every stored word as it was
C4_FreshPairInserts ==
    \A w \in WordInputs :
        (\A i \in DOMAIN words : ~SamePair(w, words[i])) =>
            \A r \in add_word(words, w, clock) :
                /\ r.is_new
                /\ r.id \notin DOMAIN words
                /\ Len(r.table) = Len(words) + 1
                /\ \A i \in DOMAIN words : r.table[i] = words[i]

\* C5: when add_word meets a stored word, the stored categories afterwards are
\* the union of the categories stored before and the incoming ones, each once
C5_MergeUnion ==
    \A w \in MergeInputs : \A r \in add_word(words, w, clock) :
        ~r.is_new =>
            /\ Range(r.table[r.id].categories) =
                   Range(words[r.id].categories) \cup Range(Get(w, "categories", <<>>))
            /\ NoRepeats(r.table[r.id].categories)

\* a merge left the word with both categories, which no single record carries
C5_Witness ==
    /\ Merged
    /\ Range(words[ret.id].categories) = {"animals", "pets"}

OptionalFields == {"gender", "plural", "notes"}

\* C6: add_word never changes a gender, plural or notes that is set (not None,
\* not empty) on the stored word, and fills one that is not set from an
\* incoming record that carries it
C6_FirstWriteWins ==
    \A w \in MergeInputs : \A r \in add_word(words, w, clock) :
        /\ \A i \in DOMAIN words : \A f \in OptionalFields :
               Truthy(words[i][f]) => r.table[i][f] = words[i][f]
        /\ ~r.is_new =>
               \A f \in OptionalFields :
                   (~Truthy(words[r.id][f]) /\ Truthy(w[f])) => r.table[r.id][f] = w[f]

\* merges have filled all three fields: no record carries more than one
C6_Witness ==
    /\ Merged
    /\ \A f \in OptionalFields : Truthy(words[ret.id][f])

\* C7: a record that differs from a stored word only in letter case merges
\* into it, and every merge leaves the stored source and target as first written
C7_CaseInsensitiveKeyCasePreserving ==
    \A w \in WordInputs : \A r \in add_word(words, w, clock) :
        /\ \A i \in DOMAIN words :
               /\ r.table[i].source = words[i].source
               /\ r.table[i].target = words[i].target
        /\ \A i \in DOMAIN words :
               SamePair(w, words[i]) =>
                   ~r.is_new /\ r.id = i /\ Len(r.table) = Len(words)

\* "fisch"/"FISH" has merged into the word stored as "Fisch"/"fish"
C7_Witness ==
    /\ Merged
    /\ ret.source = "fisch" /\ ret.target = "FISH"
    /\ words[ret.id].source = "Fisch" /\ words[ret.id].target = "fish"

\* C8: every stored word has at least one category
C8_AtLeastOneCategory == \A i \in DOMAIN words : words[i].categories # <<>>

\* C9: a quiz stored through store_quiz_to_db is a record of its own, tagged
\* type "quiz" and carrying the quiz's category
C9_QuizTaggedAndSeparate ==
    ret.op = "store_quiz_to_db" =>
        /\ ret.is_new
        /\ "type" \in DOMAIN words[ret.id]
        /\ words[ret.id].type = "quiz"
        /\ "Presidents" \in Range(words[ret.id].categories)

\* C10: when the process that loaded a batch ends, the backing file holds
\* every word the store held
C10_StoreClosedOnExit ==
    [][(pc # "closed" /\ pc' = "closed") => disk'.words = words]_vars

\* the stored words with the exact pair of word i
Group(tbl, i) ==
    {j \in DOMAIN tbl : tbl[j].source = tbl[i].source /\ tbl[j].target = tbl[i].target}

EntriesOf(dups, tbl, i) ==
    {k \in DOMAIN dups : dups[k].source = tbl[i].source /\ dups[k].target = tbl[i].target}

\* C11: get_duplicates returns, for each group of stored words with the same
\* exact (source, target), one entry when the group has more than one word,
\* with count the size of the group, and no entry when it has one
C11_DuplicatesOnePerGroup ==
    result.op = "get_duplicates" =>
        LET dups == result.value
        IN  \A i \in DOMAIN words :
                IF Cardinality(Group(words, i)) > 1
                THEN /\ Cardinality(EntriesOf(dups, words, i)) = 1
                     /\ \A k \in EntriesOf(dups, words, i) :
                            dups[k].count = Cardinality(Group(words, i))
                ELSE EntriesOf(dups, words, i) = {}


Triple(e) == <<e.word_id, e.related_word_id, e.relation_type>>

\* C12: the relations table never holds two edges with the same (word_id,
\* related_word_id, relation_type), and add_word_relation with a triple that
\* is stored leaves the table as it is
C12_RelationsIdempotent ==
    /\ \A i, j \in DOMAIN relations_table :
           Triple(relations_table[i]) = Triple(relations_table[j]) => i = j
    /\ \A i \in DOMAIN relations_table :
           LET e == relations_table[i]
           IN  add_word_relation(relations_table, e.word_id, e.related_word_id,
                                 e.relation_type) = relations_table

\* the last add_word_relation named an edge that is stored before the last
\* one: the call met its edge and added nothing
C12_Witness ==
    /\ ret.op = "add_word_relation"
    /\ Len(relations_table) >= 2
    /\ \E i \in 1..(Len(relations_table) - 1) :
           Triple(relations_table[i]) = <<ret.word_id, ret.related_word_id, ret.relation_type>>

\* two tables with the same words at the same ids, up to updated_at and the
\* order and repetition of the categories in a list
SameButUpdatedAt(t1, t2) ==
    /\ Len(t1) = Len(t2)
    /\ \A i \in DOMAIN t1 :
        /\ \A k \in {"source", "target", "source_hash", "created_at",
                     "gender", "plural", "notes"} : t1[i][k] = t2[i][k]
        /\ Range(t1[i].categories) = Range(t2[i].categories)

\* C13: storing a batch of records a second time leaves the words table as
\* the first time left it: same ids, sources, targets, category sets, gender,
\* plural and notes; only updated_at may differ
C13_RerunSafe == pc = "rerun" => SameButUpdatedAt(words, entry_words)

\* a batch of two records of one word, with different gender and categories,
\* has been stored twice, and the second time moved updated_at
C13_Witness ==
    /\ pc = "rerun"
    /\ Len(loaded) = 2
    /\ loaded[1].gender # loaded[2].gender
    /\ \E i \in DOMAIN words :
        /\ Range(words[i].categories) = {"animals", "pets"}
        /\ words[i].updated_at # entry_words[i].updated_at

\* a step of clear_database (a query leaves `result` set, a clear resets it)
ClearStep == ret'.op = "clear_database" /\ result'.op = "none"

\* C14: every step but a clear_database keeps every stored word, at the same
\* id and with the same source, target, source_hash and created_at
C14_WordsNeverDeletedIndividually ==
    [][ ~ClearStep =>
          \A i \in DOMAIN words :
              /\ i \in DOMAIN words'
              /\ \A k \in {"source", "target", "source_hash", "created_at"} :
                     words'[i][k] = words[i][k] ]_vars

\* with an edge stored, a record in another casing and with a gender has
\* merged into the word stored as "Fisch", at a later time than its creation
C14_Witness ==
    /\ ret.op = "add_word" /\ ~ret.is_new
    /\ ret.source = "fisch"
    /\ words[ret.id].source = "Fisch"
    /\ words[ret.id].gender = "feminine"
    /\ words[ret.id].created_at < words[ret.id].updated_at
    /\ relations_table # <<>>

\* where word i of the table stands in a list ordered by source, ties in
\* table order
ExportPos(tbl, i) ==
    1 + Cardinality({j \in DOMAIN tbl :
                        \/ StrLess(tbl[j].source, tbl[i].source)
                        \/ tbl[j].source = tbl[i].source /\ j < i})

\* gender, plural and notes are left out when unset or empty, and nothing
\* exported is null
ScalarsOmitted(rec, w) ==
    /\ \A f \in {"gender", "plural", "notes"} : f \in DOMAIN rec <=> Truthy(w[f])
    /\ \A f \in DOMAIN rec \ {"categories"} : rec[f] = w[f] /\ rec[f] # None

\* C15 as stated: the exported record of a word has no notes, plural or gender
\* key when the field is unset or empty, has a categories key only when the
\* categories are not just ["uncategorized"], and has no null value
C15_ExportOmission ==
    result.op = "export_words" =>
        \A i \in DOMAIN words :
            LET rec == result.value[ExportPos(words, i)]
            IN  /\ ScalarsOmitted(rec, words[i])
                /\ "categories" \in DOMAIN rec =>
                       /\ words[i].categories # <<>>
                       /\ words[i].categories # <<"uncategorized">>

\* C15: the exported record of a word has no notes, plural or gender key when
\* the field is unset or empty, has a categories key exactly when the word's
\* category list is not empty (["uncategorized"] is exported like any other
\* list), and has no null value
C15_ExportOmitsEmpty ==
    result.op = "export_words" =>
        \A i \in DOMAIN words :
            LET rec == result.value[ExportPos(words, i)]
            IN  /\ ScalarsOmitted(rec, words[i])
                /\ "categories" \in DOMAIN rec <=> words[i].categories # <<>>
                /\ "categories" \in DOMAIN rec => rec.categories = words[i].categories

\* an export with a record without categories, a record that carries
\* ["uncategorized"], and a record with gender and notes whose empty plural
\* is left out
C15_Witness ==
    /\ result.op = "export_words"
    /\ \E k \in DOMAIN result.value : DOMAIN result.value[k] = {"source", "target"}
    /\ \E k \in DOMAIN result.value :
           /\ "categories" \in DOMAIN result.value[k]
           /\ result.value[k].categories = <<"uncategorized">>
    /\ \E i \in DOMAIN words :
           /\ words[i].plural = ""
           /\ DOMAIN result.value[ExportPos(words, i)]
                  = {"source", "target", "gender", "categories", "notes"}

\* C16: export_words returns one record per stored word, ascending by source,
\* words of equal source in the order of their ids
C16_ExportOrder ==
    result.op = "export_words" =>
        /\ Len(result.value) = Len(words)
        /\ \A i \in DOMAIN words :
               result.value[ExportPos(words, i)] = export_word_data(words[i])
        /\ \A k, l \in DOMAIN result.value :
               k < l => ~StrLess(result.value[l].source, result.value[k].source)

\* an export that moved a word in front of one stored before it and kept two
\* words of equal source, with different categories, in the order of their ids
C16_Witness ==
    /\ result.op = "export_words"
    /\ \E i, j \in DOMAIN words :
           /\ i < j
           /\ ExportPos(words, j) < ExportPos(words, i)
    /\ \E i, j \in DOMAIN words :
           /\ i < j
           /\ words[i].source = words[j].source
           /\ words[i].categories # words[j].categories
           /\ result.value[ExportPos(words, i)] # result.value[ExportPos(words, j)]

\* C18: get_words_by_category(c) returns each stored word whose categories
\* contain c once, and no other word, in the order of their ids
C18_ByCategoryExact ==
    result.op = "get_words_by_category" =>
        LET v == result.value
        IN  /\ \A i \in DOMAIN words :
                   Cardinality({k \in DOMAIN v : v[k].id = i})
                       = IF result.category \in Range(words[i].categories) THEN 1 ELSE 0
            /\ \A k \in DOMAIN v :
                   /\ v[k].id \in DOMAIN words
                   /\ \A f \in {"source", "target", "gender", "plural", "categories", "notes"} :
                          v[k][f] = words[v[k].id][f]
            /\ \A k, l \in DOMAIN v : k < l => v[k].id < v[l].id

\* "animals" was asked for and came back with two words, one of which has it
\* as its second category, while another stored word does not have it
C18_Witness ==
    /\ result.op = "get_words_by_category"
    /\ result.category = "animals"
    /\ Len(result.value) = 2
    /\ \E k \in DOMAIN result.value : result.value[k].categories = <<"pets", "animals">>
    /\ Len(words) > 2

\* C19: get_all_categories returns the categories of the stored words, each
\* once, in ascending order, and nothing else
C19_AllCategoriesSorted ==
    result.op = "get_all_categories" =>
        LET v == result.value
        IN  /\ Range(v) = UNION { Range(words[i].categories) : i \in DOMAIN words }
            /\ \A k, l \in DOMAIN v : k < l => StrLess(v[k], v[l])

\* three categories came back, of words that store them in another order and
\* more than once over the table
C19_Witness ==
    /\ result.op = "get_all_categories"
    /\ result.value = <<"animals", "pets", "uncategorized">>
    /\ \E i \in DOMAIN words : words[i].categories = <<"pets", "animals">>
    /\ \E i, j \in DOMAIN words : i # j /\ "animals" \in Range(words[j].categories)
                                        /\ "animals" \in Range(words[i].categories)

\* C17: after clear_database the words, categories and relations tables are
\* empty, and get_words_by_category, get_all_categories, get_duplicates,
\* get_word_relations and export_words return nothing
C17_ClearEmptiesEverything ==
    ret.op = "clear_database" =>
        /\ words = <<>> /\ categories_table = <<>> /\ relations_table = <<>>
        /\ \A c \in QueryCategories : get_words_by_category(words, c) = <<>>
        /\ get_all_categories(words) = {<<>>}
        /\ get_duplicates(words) = <<>>
        /\ \A word_id \in 1..2 :
               get_word_relations(words, relations_table, word_id) = <<>>
        /\ export_words(words) = <<>>
        /\ result.op = "get_word_relations" => result.value = <<>>

\* the store was cleared after words had been added, and get_word_relations
\* has been asked since
C17_Witness ==
    /\ ret.op = "clear_database"
    /\ clock > 0
    /\ result.op = "get_word_relations"

\* C20: load_from_yaml of a flat mapping of n source words into an empty store
\* builds n records with categories ["uncategorized"] and no gender, plural or
\* notes, stores n new words, and then get_words_by_category("uncategorized")
\* returns n words and get_statistics gives total_words = n
C20_SimpleLoadStoresAll ==
    (ret.op = "load_from_yaml" /\ entry_words = <<>>) =>
        LET n == Len(ret.data.items)
            canonical == normalize(ret.data)
        IN  /\ Len(canonical) = n
            /\ \A i \in DOMAIN canonical :
                   /\ canonical[i].categories = <<"uncategorized">>
                   /\ DOMAIN canonical[i] \cap {"gender", "plural", "notes"} = {}
            /\ Cardinality({i \in DOMAIN ret.flags : ret.flags[i]}) = n
            /\ Len(words) = n
            /\ (result.op = "get_words_by_category" /\ result.category = "uncategorized")
                   => Len(result.value) = n
            /\ result.op = "get_statistics" => result.value.total_words = n

\* an entry the enhanced format knows: a mapping with source and target, or a
\* mapping with a single key
Recognized(item) ==
    IsDict(item) /\ \/ {"source", "target"} \subseteq DOMAIN item.d
                    \/ Cardinality(DOMAIN item.d) = 1

\* C21: _process_enhanced_format returns one record for each recognized entry,
\* in the order of the entries, and nothing for the others, wherever they stand
C21_EnhancedBestEffort ==
    result.op = "process_enhanced_format" =>
        LET items == result.words_list
            known == {i \in DOMAIN items : Recognized(items[i])}
            pos(i) == Cardinality({j \in known : j <= i})
        IN  /\ Len(result.value) = Cardinality(known)
            /\ \A i \in known :
                   LET d == items[i].d
                       rec == result.value[pos(i)]
                   IN  IF {"source", "target"} \subseteq DOMAIN d
                       THEN /\ rec.source = Str(d.source) /\ rec.target = Str(d.target)
                            /\ rec.gender = Get(d, "gender", None)
                            /\ rec.categories = Get(d, "categories", <<"uncategorized">>)
                       ELSE /\ {rec.source} = DOMAIN d
                            /\ rec.target = Str(d[rec.source])
                            /\ rec.categories = <<"uncategorized">>

\* three entries, the first one a scalar and the second an unrecognized
\* mapping: the record of the third, a single-key mapping, is the only one
C21_Witness ==
    /\ result.op = "process_enhanced_format"
    /\ Len(result.words_list) = 3
    /\ ~IsDict(result.words_list[1])
    /\ IsDict(result.words_list[2]) /\ ~Recognized(result.words_list[2])
    /\ Recognized(result.words_list[3])
    /\ Cardinality(DOMAIN result.words_list[3].d) = 1
    /\ Len(result.value) = 1

\* C22: validate_word_list is false exactly for the empty list and for lists
\* with an entry that is not a mapping, that lacks source or target, or whose
\* source or target is empty
C22_ValidateWordList ==
    result.op = "validate_word_list" =>
        (result.value = FALSE <=>
            \/ result.words = <<>>
            \/ \E i \in DOMAIN result.words :
                   LET w == result.words[i]
                   IN  \/ ~IsDict(w)
                       \/ "source" \notin DOMAIN w.d \/ "target" \notin DOMAIN w.d
                       \/ w.d.source \in {"", None} \/ w.d.target \in {"", None})

\* a list was accepted, and a list was refused only for the empty target of
\* its last entry
C22_Witness ==
    /\ result.op = "validate_word_list"
    /\ Len(result.words) = 3
    /\ ~result.value
    /\ validate_word_list(SubSeq(result.words, 1, 2))
    /\ IsDict(result.words[3])
    /\ {"source", "target"} \subseteq DOMAIN result.words[3].d
    /\ result.words[3].d.target = ""

\* a question entry with both question and answer
Qualifies(q) == IsDict(q) /\ {"question", "answer"} \subseteq DOMAIN q.d

\* (question, answer, category) of the qualifying entries of a list of
\* questions, in order
RECURSIVE QualifyingOf(_, _)
QualifyingOf(questions, category) ==
    IF questions = <<>> THEN <<>>
    ELSE (IF Qualifies(Head(questions))
          THEN << <<Str(Head(questions).d.question), Str(Head(questions).d.answer),
                    category>> >>
          ELSE <<>>)
         \o QualifyingOf(Tail(questions), category)

\* the same over the blocks of a file: a block gives its question entries
\* when it is a mapping with a list of questions, and none otherwise
RECURSIVE QualifyingIn(_)
QualifyingIn(blocks) ==
    IF blocks = <<>> THEN <<>>
    ELSE LET b == Head(blocks)
         IN  (IF IsDict(b) /\ "questions" \in DOMAIN b.d /\ b.d.questions.py = "list"
              THEN QualifyingOf(b.d.questions.items,
                                Get(b.d, "category", "Uncategorized"))
              ELSE <<>>)
             \o QualifyingIn(Tail(blocks))

\* C23: _process_quizzes returns one record for each question entry that has
\* both question and answer, in input order and with its block's category,
\* and none for the others; no entry ends the processing of the rest
C23_QuizBestEffort ==
    result.op = "process_quizzes" =>
        [i \in DOMAIN result.value.quizzes |->
            <<result.value.quizzes[i].question, result.value.quizzes[i].answer,
              result.value.quizzes[i].category>>]
        = QualifyingIn(result.quizzes_list)

\* the question entry a processed question came from
EntryOf(quiz) == CHOOSE q \in {Q1, Q2, Q5} : q.d.question = quiz.question

\* C24: question_media and answer_media of every processed question have the
\* keys text, audio and image, each with the value the entry's config gives
\* it, or with the default (text True, audio False, image False) when the
\* config does not give it
C24_MediaOverDefaults ==
    result.op = "process_quizzes" =>
        \A i \in DOMAIN result.value.quizzes :
            LET quiz == result.value.quizzes[i]
            IN  \A m \in {"question_media", "answer_media"} :
                    LET given == IF m \in DOMAIN EntryOf(quiz).d
                                 THEN EntryOf(quiz).d[m].d ELSE <<>>
                    IN  /\ {"text", "audio", "image"} \subseteq DOMAIN quiz[m]
                        /\ \A k \in {"text", "audio", "image"} :
                               quiz[m][k] = IF k \in DOMAIN given THEN given[k]
                                            ELSE default_media[k]

\* a question whose configs override audio, text and image and keep the other
\* defaults, after a question without configs that has the defaults
C24_Witness ==
    /\ result.op = "process_quizzes"
    /\ \E i, j \in DOMAIN result.value.quizzes :
        /\ i < j
        /\ result.value.quizzes[i].question_media = default_media
        /\ result.value.quizzes[j].question_media
               = [text |-> TRUE, audio |-> TRUE, image |-> FALSE]
        /\ result.value.quizzes[j].answer_media.text = FALSE
        /\ result.value.quizzes[j].answer_media.audio = FALSE
        /\ result.value.quizzes[j].answer_media.image = TRUE

\* C25: validate_quiz_list is false exactly for the empty list and for lists
\* with a record that lacks question, answer, question_media or answer_media,
\* or whose question_media or answer_media lacks text, audio or image
C25_ValidateQuizList ==
    result.op = "validate_quiz_list" =>
        (result.value = FALSE <=>
            \/ result.quizzes = <<>>
            \/ \E i \in DOMAIN result.quizzes :
                   LET quiz == result.quizzes[i]
                   IN  \/ \E f \in {"question", "answer", "question_media", "answer_media"} :
                              f \notin DOMAIN quiz
                       \/ \E m \in {"question_media", "answer_media"} :
                              /\ m \in DOMAIN quiz
                              /\ \E k \in {"text", "audio", "image"} :
                                     k \notin DOMAIN quiz[m])

\* two processed questions were accepted, and with a third record, whose
\* answer_media has no image key, the list was refused
C25_Witness ==
    /\ result.op = "validate_quiz_list"
    /\ Len(result.quizzes) = 3
    /\ ~result.value
    /\ validate_quiz_list(SubSeq(result.quizzes, 1, 2))
    /\ {"question", "answer", "question_media", "answer_media"}
           \subseteq DOMAIN result.quizzes[3]
    /\ "image" \notin DOMAIN result.quizzes[3].answer_media

\* C26: an add_word that merges into an existing word sets its updated_at to
\* the time of the call and leaves its created_at as it was; every stored
\* word has created_at <= updated_at, and while a word stays in the table
\* its updated_at never decreases
C26_UpdatedAtRefreshed ==
    [][/\ \A i \in DOMAIN words' :
              words'[i].created_at <= words'[i].updated_at
       /\ \A i \in DOMAIN words \cap DOMAIN words' :
              /\ words'[i].created_at = words[i].created_at
              /\ words'[i].updated_at >= words[i].updated_at
       /\ (ret'.op \in {"add_word", "store_quiz_to_db"} /\ ~ret'.is_new) =>
              /\ ret'.id \in DOMAIN words
              /\ words'[ret'.id].updated_at = clock'
              /\ clock' >= clock]_vars

\* a merge at a later time than the word's creation
C26_Witness ==
    /\ ret.op = "add_word"
    /\ ~ret.is_new
    /\ words[ret.id].updated_at = clock
    /\ words[ret.id].created_at < words[ret.id].updated_at

\* C27: analyze_vocabulary leaves the words, categories and word_relations
\* tables as they are, and its category_distribution has one key for each
\* category get_all_categories returns, with the number of stored words that
\* carry the category as its value
C27_AnalysisReadOnly ==
    [][result'.op = "analyze_vocabulary" =>
          /\ words' = words
          /\ categories_table' = categories_table
          /\ relations_table' = relations_table
          /\ \E categories \in get_all_categories(words) :
                 DOMAIN result'.value.category_distribution = Range(categories)
          /\ \A c \in DOMAIN result'.value.category_distribution :
                 result'.value.category_distribution[c]
                     = Cardinality({i \in DOMAIN words :
                                       c \in Range(words[i].categories)})]_vars

\* an analysis of a store with relations and with a word of two categories:
\* two words carry one category and one word the other
C27_Witness ==
    /\ result.op = "analyze_vocabulary"
    /\ relations_table # <<>>
    /\ Len(result.value.multi_category_words) = 1
    /\ \E c, d \in DOMAIN result.value.category_distribution :
           /\ result.value.category_distribution[c] = 2
           /\ result.value.category_distribution[d] = 1

\* C28: constructing the store on a file with an empty categories table gives
\* exactly the six default categories, constructing it on a file with a
\* non-empty categories table gives that table as it is, no category is ever
\* stored twice, in the store or on file, and after clear_database the
\* categories table stays empty for as long as the store is open
C28_SeedingIdempotent ==
    [][/\ (pc = "closed" /\ pc' = "ready") =>
              categories_table' = IF disk.categories = <<>>
                                  THEN << "fruit", "vegetables", "animals", "food",
                                          "vehicles", "professions" >>
                                  ELSE disk.categories
       /\ \A i, j \in DOMAIN categories_table' :
              categories_table'[i] = categories_table'[j] => i = j
       /\ \A i, j \in DOMAIN disk'.categories :
              disk'.categories[i] = disk'.categories[j] => i = j
       /\ ret'.op = "clear_database" => categories_table' = <<>>
       /\ (pc = "ready" /\ pc' = "ready" /\ categories_table = <<>>) =>
              categories_table' = <<>>]_vars

\* a store just constructed on a file that an earlier process wrote with
\* words and with the six categories
C28_Witness ==
    /\ pc = "ready"
    /\ ret.op = "none"
    /\ disk.words # <<>>
    /\ Len(disk.categories) = 6
    /\ categories_table = disk.categories

\* C29: add_word of a record with a category that is not in the categories
\* table returns an id, and the word of that id carries the category; no
\* add_word, of a new word or of a stored one, changes the categories table
\* or the word_relations table
C29_SoftReference ==
    [][/\ \A w \in AnalysisInputs :
              /\ add_word(words, w, clock) # {}
              /\ \A r \in add_word(words, w, clock) :
                     /\ r.id \in DOMAIN r.table
                     /\ Range(Get(w, "categories", <<>>))
                            \subseteq Range(r.table[r.id].categories)
       /\ (ret'.op = "add_word" /\ words' # words) =>
              /\ categories_table' = categories_table
              /\ relations_table' = relations_table]_vars

\* a new word stored with a category the categories table does not have,
\* in a store with categories and a relation
C29_Witness ==
    /\ ret.op = "add_word"
    /\ ret.is_new
    /\ "pets" \in Range(words[ret.id].categories)
    /\ "pets" \notin Range(categories_table)
    /\ categories_table # <<>>
    /\ relations_table # <<>>

\* C30: in a words table filled through add_word alone, starting empty,
\* get_duplicates returns the empty list
C30_NoExactDuplicates == get_duplicates(words) = <<>>

\* a pair added again with exactly the strings stored, in a table of two
\* words or more
C30_Witness ==
    /\ ret.op = "add_word"
    /\ ~ret.is_new
    /\ words[ret.id].source = ret.source
    /\ words[ret.id].target = ret.target
    /\ Len(words) >= 2
    /\ get_duplicates(words) = <<>>
====
